---- MODULE Spec2Model ----
(***************************************************************************)
(* SingingModel (model.py): the receptive-field computation, the layer     *)
(* schedule of build_model, the mixture sampling of sample_output, the     *)
(* start-up and learning-rate schedule of train_model, and the             *)
(* autoregressive loop of inference.                                       *)
(*                                                                         *)
(* Tensors are abstracted along the time axis: a frame stands for the      *)
(* channel vector of one time step.  Real numbers are exact: mixture       *)
(* weights and uniform draws are integers in units of 1/Total, learning    *)
(* rates are exact fractions of arbitrary size.                            *)
(***************************************************************************)
EXTENDS Integers, Sequences, FiniteSets, TLC

\* ------------------------------------------------------------------ bounds
MaxHyper == 3        \* levels, blocks, kernel, init_kernel range over 0..MaxHyper
InferHyper == 2      \* hyperparameters of an inference run range over 0..InferHyper
MaxLen == 4          \* longest label sequence of an inference run
MaxGen == 1          \* the generator's sampled values are 0..MaxGen
WeightSteps == 4     \* mixture weights are multiples of 1/WeightSteps
Resolution == 10000  \* uniform draws are multiples of about 1/Resolution
MaxDist == 2         \* Gaussian draws are 1..MaxDist
MaxEpochs == 3       \* epochs of one train_model run: 1..MaxEpochs
MaxRuns == 2         \* train_model runs on the same model directory

\* ------------------------------------------------------- program constants
K == 4               \* mixture components: range(4)
DecayDen == 100000   \* 1 / 0.00001, the decay constant of lr_scheduler

\* ----------------------------------------------------------------- helpers
Min(a, b) == IF a < b THEN a ELSE b
Max(a, b) == IF a > b THEN a ELSE b

RECURSIVE SumSeq(_)
SumSeq(s) == IF s = <<>> THEN 0 ELSE Head(s) + SumSeq(Tail(s))

RECURSIVE Pow2(_)
Pow2(n) == IF n <= 0 THEN 1 ELSE 2 * Pow2(n - 1)

\* Python's s[a:b] for 0 <= a, 0 <= b: clipped to the sequence, empty if a >= b.
PySlice(s, a, b) == SubSeq(s, a + 1, Min(b, Len(s)))

VARIABLES
    \* hyperparameters and the two computations that walk the layer stack
    m_params, layers, rf_value,
    \* sample_output
    weights, random, distribution, mask, spectral_value,
    \* train_model
    model_file, run, train_pc, load, found, model, epoch, epochs, lr, lr_log,
    \* inference
    gen_gui, kill_signal, spectral_data, label_data, pc, generator, receptive_field,
    i, model_input, output, calls, generated_log, checks, progress, result

hyperVars == <<m_params, layers, rf_value>>
sampleVars == <<weights, random, distribution, mask, spectral_value>>
trainVars == <<model_file, run, train_pc, load, found, model, epoch, epochs, lr, lr_log>>
inferVars == <<gen_gui, kill_signal, spectral_data, label_data, pc, generator, receptive_field,
               i, model_input, output, calls, generated_log, checks, progress, result>>
vars == <<hyperVars, sampleVars, trainVars, inferVars>>

\* A value not computed yet, and a computed one.
NotYet == <<>>
Some(x) == <<x>>
Val(o) == o[1]

\* ============================================================ hyperparameters
Params(max) == [levels : 0..max, blocks : 0..max, kernel : 0..max, init_kernel : 0..max]

\* for j in range(n): receptive_field += add_scope; add_scope *= 2
RECURSIVE LevelLoop(_, _, _)
LevelLoop(n, acc, add_scope) ==
    IF n <= 0 THEN acc ELSE LevelLoop(n - 1, acc + add_scope, add_scope * 2)

\* for i in range(blocks), from block i on, with the running receptive_field
RECURSIVE BlockLoopNoReduce(_, _, _)
BlockLoopNoReduce(p, b, acc) ==
    IF b >= p.blocks THEN acc
    ELSE BlockLoopNoReduce(p, b + 1, LevelLoop(p.levels, acc, p.kernel - 1))

RECURSIVE BlockLoop(_, _, _)
BlockLoop(p, b, acc) ==
    IF b >= p.blocks THEN acc
    ELSE LET neural_levels == IF b = p.blocks - 1 THEN p.levels - 1 ELSE p.levels
         IN  BlockLoop(p, b + 1, LevelLoop(neural_levels, acc, p.kernel - 1))

\* A get_receptive_field that gives the final block all its levels.
GetReceptiveFieldFullLast(p) == BlockLoopNoReduce(p, 0, 1) + p.init_kernel - 1

GetReceptiveField(p) == BlockLoop(p, 0, 1) + p.init_kernel - 1

\* build_model: the dilation rate of each dilated convolution, in layer order.
RECURSIVE BuildLevels(_, _)
BuildLevels(n, dilation_rate) ==
    IF n <= 0 THEN <<>> ELSE <<dilation_rate>> \o BuildLevels(n - 1, dilation_rate * 2)

RECURSIVE BuildBlocks(_, _)
BuildBlocks(p, b) ==
    IF b >= p.blocks THEN <<>>
    ELSE LET neural_levels == IF b = p.blocks - 1 THEN p.levels - 1 ELSE p.levels
         IN  BuildLevels(neural_levels, 1) \o BuildBlocks(p, b + 1)

DilatedLayers(p) == BuildBlocks(p, 0)

HyperIdle == /\ m_params = NotYet /\ layers = NotYet /\ rf_value = NotYet

HyperInit == /\ m_params \in Params(MaxHyper) /\ layers = NotYet /\ rf_value = NotYet

\* build_model(data_handler, m_params): no hyperparameter is validated.
build_model ==
    /\ layers = NotYet
    /\ layers' = Some(DilatedLayers(m_params))
    /\ UNCHANGED <<m_params, rf_value, sampleVars, trainVars, inferVars>>

get_receptive_field ==
    /\ rf_value = NotYet
    /\ rf_value' = Some(GetReceptiveField(m_params))
    /\ UNCHANGED <<m_params, layers, sampleVars, trainVars, inferVars>>

\* ============================================================== sample_output
Step == Resolution \div WeightSteps
Total == Step * WeightSteps          \* the integer that stands for 1.0

\* weights >= 0 that sum to 1, as multi_params' normalisation leaves them
WeightSets == {w \in [1..K -> {n * Step : n \in 0..WeightSteps}] : SumSeq(w) = Total}

\* uniform draws in [0, 1): every interval edge and its two neighbours
Draws == {u \in {n * Step + d : n \in 0..WeightSteps, d \in {-1, 0, 1}} : 0 <= u /\ u < Total}

\* for i in range(k): mask_set = mask_set + weights[i]   (k counts from 1 here)
RECURSIVE MaskSet(_, _)
MaskSet(w, k) == IF k <= 1 THEN 0 ELSE MaskSet(w, k - 1) + w[k - 1]

\* A mask whose lower test is strict (greater instead of greater_equal).
MaskStrictLower(w, u, k) ==
    LET mask_set == MaskSet(w, k)
        mask_a == u < w[k] + mask_set
        mask_b == u > mask_set
    IN  IF mask_a /\ mask_b THEN 1 ELSE 0

Mask(w, u, k) ==
    LET mask_set == MaskSet(w, k)
        mask_a == u < w[k] + mask_set
        mask_b == u >= mask_set
    IN  IF mask_a /\ mask_b THEN 1 ELSE 0

SampleIdle ==
    /\ weights = NotYet /\ random = NotYet /\ distribution = NotYet
    /\ mask = NotYet /\ spectral_value = NotYet

SampleInit ==
    /\ weights \in WeightSets
    /\ random = NotYet /\ distribution = NotYet /\ mask = NotYet /\ spectral_value = NotYet

sample_output ==
    /\ mask = NotYet
    /\ \E u \in Draws, d \in [1..K -> 1..MaxDist] :
         /\ random' = Some(u)
         /\ distribution' = Some(d)
         /\ mask' = Some([k \in 1..K |-> Mask(weights, u, k)])
         /\ spectral_value' = Some(SumSeq([k \in 1..K |-> Mask(weights, u, k) * d[k]]))
    /\ UNCHANGED <<weights, hyperVars, trainVars, inferVars>>

\* ================================================================ train_model
\* Exact arithmetic on naturals of any size: little-endian digits in base 1000,
\* with no leading zero digit, so that equal numbers are equal sequences.
RECURSIVE Big(_)
Big(n) == IF n <= 0 THEN <<>> ELSE <<n % 1000>> \o Big(n \div 1000)

RECURSIVE MulCarry(_, _, _)
MulCarry(a, m, c) ==
    IF a = <<>> THEN Big(c)
    ELSE LET t == Head(a) * m + c IN <<t % 1000>> \o MulCarry(Tail(a), m, t \div 1000)

BigMulSmall(a, m) == IF m = 0 THEN <<>> ELSE MulCarry(a, m, 0)

RECURSIVE AddCarry(_, _, _)
AddCarry(a, b, c) ==
    IF a = <<>> /\ b = <<>> THEN Big(c)
    ELSE LET x == IF a = <<>> THEN 0 ELSE Head(a)
             y == IF b = <<>> THEN 0 ELSE Head(b)
             t == x + y + c
         IN  <<t % 1000>> \o AddCarry(IF a = <<>> THEN a ELSE Tail(a),
                                      IF b = <<>> THEN b ELSE Tail(b), t \div 1000)

RECURSIVE BigMul(_, _)
BigMul(a, b) ==
    IF a = <<>> \/ b = <<>> THEN <<>>
    ELSE LET rest == BigMul(a, Tail(b))
         IN  AddCarry(BigMulSmall(a, Head(b)),
                      IF rest = <<>> THEN rest ELSE <<0>> \o rest, 0)

RECURSIVE BigLess(_, _)
BigLess(a, b) ==
    IF Len(a) # Len(b) THEN Len(a) < Len(b)
    ELSE IF a = <<>> THEN FALSE
    ELSE LET n == Len(a)
         IN  IF a[n] # b[n] THEN a[n] < b[n]
             ELSE BigLess(SubSeq(a, 1, n - 1), SubSeq(b, 1, n - 1))

\* Fractions num/den of such numbers, den > 0.
Rat(n, d) == [num |-> Big(n), den |-> Big(d)]
RatEq(x, y) == BigMul(x.num, y.den) = BigMul(y.num, x.den)
RatLeq(x, y) == ~BigLess(BigMul(y.num, x.den), BigMul(x.num, y.den))
RatDivSmall(x, n, d) == [num |-> BigMulSmall(x.num, d), den |-> BigMulSmall(x.den, n)]

\* m_params.learn_rate: learning rates are measured in units of it.
LearnRate == Rat(1, 1)

\* lr / (1 + 0.00001 * epoch)  =  lr * DecayDen / (DecayDen + epoch)
lr_scheduler(ep, rate) == RatDivSmall(rate, DecayDen + ep, DecayDen)

NoModel == [origin |-> "none", optimizer |-> "none", loss |-> "none"]

\* A start-up that insists on the checkpoint when load is requested.
StartModelStrict(load_req, file) ==
    IF load_req /\ file = NotYet
    THEN [pc |-> "aborted", model |-> NoModel, lr |-> LearnRate]
    ELSE IF load_req
    THEN [pc |-> "fit", lr |-> Val(file).lr,
          model |-> [origin |-> "loaded", optimizer |-> Val(file).optimizer,
                     loss |-> Val(file).loss]]
    ELSE [pc |-> "fit", lr |-> LearnRate,
          model |-> [origin |-> "built", optimizer |-> "adam", loss |-> "network_loss"]]

\* Lines 206-217: which model train_model fits, and its optimizer's learning rate.
StartModel(load_req, file) ==
    LET load_eff == IF load_req /\ file = NotYet THEN FALSE ELSE load_req
    IN  IF load_eff
        THEN [pc |-> "fit", lr |-> Val(file).lr,
              model |-> [origin |-> "loaded", optimizer |-> Val(file).optimizer,
                         loss |-> Val(file).loss]]
        ELSE [pc |-> "fit", lr |-> LearnRate,
              model |-> [origin |-> "built", optimizer |-> "adam", loss |-> "network_loss"]]

NoRun ==
    /\ run = 0 /\ train_pc = "idle" /\ load = FALSE /\ found = FALSE
    /\ model = NoModel /\ epoch = 0 /\ epochs = 0 /\ lr = LearnRate /\ lr_log = <<>>

TrainIdle == model_file = NotYet /\ NoRun

\* train_model(model_type, load, epochs) up to the call of model.fit.
train_model ==
    /\ train_pc \in {"idle", "done"}
    /\ run < MaxRuns
    /\ \E load_req \in BOOLEAN, n \in 1..MaxEpochs :
         LET s == StartModel(load_req, model_file)
         IN  /\ load' = load_req
             /\ found' = (model_file # NotYet)
             /\ epochs' = n
             /\ model' = s.model
             /\ lr' = s.lr
             /\ train_pc' = s.pc
    /\ run' = run + 1
    /\ epoch' = 0
    /\ lr_log' = <<>>
    /\ UNCHANGED <<model_file, hyperVars, sampleVars, inferVars>>

\* LearningRateScheduler at the start of an epoch: the optimizer's current rate
\* goes through lr_scheduler and the result is installed.
epoch_begin ==
    /\ train_pc = "fit"
    /\ Len(lr_log) = epoch
    /\ lr' = lr_scheduler(epoch, lr)
    /\ lr_log' = Append(lr_log, lr')
    /\ UNCHANGED <<model_file, run, train_pc, load, found, model, epoch, epochs,
                   hyperVars, sampleVars, inferVars>>

\* The end of an epoch: TerminateOnNaN stops the fit on a NaN loss; ModelCheckpoint
\* (save_best_only) writes the model, optimizer included, when the loss improved,
\* which the first epoch's loss always does.
epoch_end ==
    /\ train_pc = "fit"
    /\ Len(lr_log) = epoch + 1
    /\ \E loss \in {"improved", "not improved", "nan"} :
         /\ loss = "not improved" => epoch > 0
         /\ model_file' = IF loss = "improved"
                          THEN Some([lr |-> lr, optimizer |-> model.optimizer,
                                     loss |-> model.loss])
                          ELSE model_file
         /\ train_pc' = IF loss = "nan" \/ epoch + 1 >= epochs THEN "done" ELSE "fit"
    /\ epoch' = epoch + 1
    /\ UNCHANGED <<run, load, found, model, epochs, lr, lr_log,
                   hyperVars, sampleVars, inferVars>>

\* ================================================================== inference
\* One row per time step: the generated vector, then (when spectral_data is given)
\* the companion vector of the same step, concatenated along the channel axis.
Rows(out, spec) ==
    IF spec = NotYet THEN [t \in 1..Len(out) |-> <<out[t]>>]
    ELSE [t \in 1..Len(out) |-> <<out[t], Val(spec)[t]>>]

\* spectral_data[a:b], when spectral_data is given.
SpectralSlice(spec, a, b) == IF spec = NotYet THEN spec ELSE Some(PySlice(Val(spec), a, b))

\* A row of zeros as wide as the rows above: np.zeros and np.pad's fill.
ZeroRow(spec) == IF spec = NotYet THEN <<0>> ELSE <<0, 0>>

Zeros(n) == [t \in 1..n |-> 0]

\* Lines 323-330 with the window's start one step late.
LabelWindowLate(labels, idx, R) ==
    IF idx < R THEN PySlice(labels, 0, idx + 1)
    ELSE PySlice(labels, idx + 2 - R, idx + 1)

\* Lines 323-330: labels = label_data[start:end]
LabelWindow(labels, idx, R) ==
    LET start == IF idx < R THEN 0 ELSE idx + 1 - R
        end == idx + 1
    IN  PySlice(labels, start, end)

\* Lines 338-348 with the padded branch kept one step too long.
NextInputPadLong(out, spec, idx, R) ==
    IF idx < R
    THEN <<ZeroRow(spec)>>
           \o Rows(PySlice(out, 0, idx + 1),
                   SpectralSlice(spec, 0, idx + 1))
    ELSE Rows(PySlice(out, idx + 1 - R, idx + 1),
              SpectralSlice(spec, idx + 1 - R, idx + 1))

\* Lines 338-348: the input window of the next step, after output[idx] is written.
NextInput(out, spec, idx, R) ==
    IF idx < R - 1
    THEN <<ZeroRow(spec)>>
           \o Rows(PySlice(out, 0, idx + 1),
                   SpectralSlice(spec, 0, idx + 1))
    ELSE Rows(PySlice(out, idx + 1 - R, idx + 1),
              SpectralSlice(spec, idx + 1 - R, idx + 1))

\* output[i, :] = generated, written one position early.
WriteOutputEarly(out, idx, g) == [out EXCEPT ![Max(idx, 1)] = g]

\* Line 336: output[i, :] = generated
WriteOutput(out, idx, g) == [out EXCEPT ![idx + 1] = g]

\* A check that is skipped after the last step.
CancelledNotLast(gui, kill, idx, n) == gui /\ kill /\ idx + 1 < n

\* Lines 352-354: if self.gen_gui is not None: if self.gen_gui.kill_signal: return None
Cancelled(gui, kill, idx, n) == gui /\ kill

\* A get_generator that falls back to a fresh network.
GetGeneratorFallback(file) ==
    IF file = NotYet THEN [pc |-> "loop", generator |-> "fresh"]
    ELSE [pc |-> "loop", generator |-> "loaded"]

\* Lines 247-255: sys.exit without the checkpoint, else the loaded model with the
\* sampling layer on top.
GetGenerator(file) ==
    IF file = NotYet THEN [pc |-> "exited", generator |-> "none"]
    ELSE [pc |-> "loop", generator |-> "loaded"]

Pending == [kind |-> "pending", value |-> <<>>]

InferIdle ==
    /\ gen_gui = FALSE /\ kill_signal = FALSE /\ spectral_data = NotYet /\ label_data = <<>>
    /\ pc = "idle" /\ generator = "none" /\ receptive_field = 0 /\ i = 0
    /\ model_input = <<>> /\ output = <<>> /\ calls = <<>> /\ generated_log = <<>>
    /\ checks = <<>> /\ progress = 0 /\ result = Pending

SavedModel == Some([lr |-> LearnRate, optimizer |-> "adam", loss |-> "network_loss"])

InferInit ==
    /\ gen_gui \in BOOLEAN
    /\ kill_signal = FALSE
    /\ \E n \in 0..MaxLen :
         /\ label_data = [t \in 1..n |-> 100 + t]
         /\ spectral_data \in {NotYet, Some([t \in 1..n |-> 10 + t])}
    /\ pc = "idle" /\ generator = "none" /\ receptive_field = 0 /\ i = 0
    /\ model_input = <<>> /\ output = <<>> /\ calls = <<>> /\ generated_log = <<>>
    /\ checks = <<>> /\ progress = 0 /\ result = Pending

\* inference(label_data, model_type, spectral_data) up to the loop: lines 285-319.
inference_start ==
    /\ pc = "idle"
    /\ LET g == GetGenerator(model_file)
       IN  /\ pc' = g.pc
           /\ generator' = g.generator
           /\ IF g.pc = "loop"
              THEN /\ receptive_field' = GetReceptiveField(m_params)
                   /\ model_input' = <<ZeroRow(spectral_data)>>
                   /\ output' = Zeros(Len(label_data))
              ELSE UNCHANGED <<receptive_field, model_input, output>>
    /\ UNCHANGED <<gen_gui, kill_signal, spectral_data, label_data, i, calls, generated_log,
                   checks, progress, result, hyperVars, sampleVars, trainVars>>

\* One pass of the loop, lines 321-356: the forward pass on the two windows, the
\* write of its sample, the next input window, the cancellation check, the progress.
inference_step ==
    /\ pc = "loop"
    /\ i < Len(label_data)
    /\ \E generated \in 0..MaxGen :
         LET labels == LabelWindow(label_data, i, receptive_field)
             out == WriteOutput(output, i, generated)
             stop == Cancelled(gen_gui, kill_signal, i, Len(label_data))
         IN  /\ calls' = Append(calls, [step |-> i, input |-> model_input, labels |-> labels])
             /\ generated_log' = Append(generated_log, generated)
             /\ output' = out
             /\ model_input' = NextInput(out, spectral_data, i, receptive_field)
             /\ checks' = IF gen_gui THEN Append(checks, kill_signal) ELSE checks
             /\ IF stop
                THEN /\ result' = [kind |-> "none", value |-> <<>>]
                     /\ pc' = "returned"
                     /\ UNCHANGED <<i, progress>>
                ELSE \* int((i / audio_length) * 100): the floor, exactly, for
                     \* every audio_length below 40
                     /\ progress' = IF gen_gui THEN (i * 100) \div Len(label_data)
                                    ELSE progress
                     /\ i' = i + 1
                     /\ UNCHANGED <<result, pc>>
    /\ UNCHANGED <<gen_gui, kill_signal, spectral_data, label_data, generator,
                   receptive_field, hyperVars, sampleVars, trainVars>>

\* Lines 358-360: the loop is over, the output array is returned.
inference_return ==
    /\ pc = "loop"
    /\ i >= Len(label_data)
    /\ result' = [kind |-> "array", value |-> output]
    /\ pc' = "returned"
    /\ UNCHANGED <<gen_gui, kill_signal, spectral_data, label_data, generator,
                   receptive_field, i, model_input, output, calls, generated_log, checks,
                   progress, hyperVars, sampleVars, trainVars>>

\* The user interface sets gen_gui.kill_signal while the run is under way.
set_kill_signal ==
    /\ gen_gui
    /\ pc \in {"idle", "loop"}
    /\ ~kill_signal
    /\ kill_signal' = TRUE
    /\ UNCHANGED <<gen_gui, spectral_data, label_data, pc, generator, receptive_field, i,
                   model_input, output, calls, generated_log, checks, progress, result,
                   hyperVars, sampleVars, trainVars>>

\* ============================================================= specifications
\* The hyperparameter walks: build_model and get_receptive_field on one record.
HyperStart == HyperInit /\ SampleIdle /\ TrainIdle /\ InferIdle
HyperNext == build_model \/ get_receptive_field
SpecHyper == HyperStart /\ [][HyperNext]_vars

\* sample_output on one time step's mixture.
SampleStart == HyperIdle /\ SampleInit /\ TrainIdle /\ InferIdle
SampleNext == sample_output
SpecSample == SampleStart /\ [][SampleNext]_vars

\* train_model runs, one after the other, on one model directory.
TrainStart == HyperIdle /\ SampleIdle /\ TrainIdle /\ InferIdle
TrainNext == train_model \/ epoch_begin \/ epoch_end
SpecTrain == TrainStart /\ [][TrainNext]_vars

\* One inference run, with or without the checkpoint and the user interface.
InferStart ==
    /\ m_params \in Params(InferHyper) /\ layers = NotYet /\ rf_value = NotYet
    /\ SampleIdle
    /\ model_file \in {NotYet, SavedModel} /\ NoRun
    /\ InferInit
Init == InferStart
Next == inference_start \/ inference_step \/ inference_return \/ set_kill_signal
Spec == Init /\ [][Next]_vars

\* The same run as the interpreter executes it: a statement that can run does run,
\* and generator.predict returns.
SpecFair ==
    /\ Spec
    /\ WF_vars(inference_start) /\ WF_vars(inference_step) /\ WF_vars(inference_return)

\* ===================================================================== claims
\* The slice [lo, hi) of a sequence indexed from 0, written out element by element.
Slice(s, lo, hi) == [k \in 1..(hi - lo) |-> s[lo + k]]

FirstChannel(rows) == [k \in 1..Len(rows) |-> rows[k][1]]

AllZero(row) == \A c \in 1..Len(row) : row[c] = 0

\* C1: at every step t of inference, with a receptive field R >= 1, the label window
\* handed to the generator is the slice [max(0, t+1-R), t+1) of the label sequence,
\* and the input window of the same call is as long as it: min(t+1, R) time steps.
C1_Windows ==
    receptive_field >= 1 =>
        \A n \in 1..Len(calls) :
            LET t == calls[n].step
                R == receptive_field
            IN  /\ calls[n].labels = Slice(label_data, Max(0, t + 1 - R), t + 1)
                /\ Len(calls[n].input) = Len(calls[n].labels)
                /\ Len(calls[n].labels) = Min(t + 1, R)

C1_Witness ==
    /\ receptive_field = 2
    /\ Len(calls) = 3
    /\ calls[3].labels = <<102, 103>>
    /\ Len(calls[2].input) = 2

\* C2: with R >= 1, the input window of a step t < R is a row of zeros followed by
\* the outputs of steps 0..t-1 in order; the input window of a step t >= R holds no
\* padding: it is exactly the outputs of steps t-R..t-1 (and, when companion data is
\* given, the companion rows of the same steps).
C2_Padding ==
    receptive_field >= 1 =>
        \A n \in 1..Len(calls) :
            LET t == calls[n].step
                R == receptive_field
                w == calls[n].input
            IN  IF t < R
                THEN /\ Len(w) = t + 1
                     /\ AllZero(w[1])
                     /\ FirstChannel(w) = <<0>> \o Slice(generated_log, 0, t)
                ELSE /\ FirstChannel(w) = Slice(generated_log, t - R, t)
                     /\ spectral_data # NotYet =>
                            [k \in 1..Len(w) |-> w[k][2]] = Slice(Val(spectral_data), t - R, t)

C2_Witness ==
    /\ receptive_field = 2
    /\ Len(calls) = 3
    /\ spectral_data # NotYet
    /\ calls[2].input = <<(<<0, 0>>), (<<1, 11>>)>>
    /\ calls[3].input = <<(<<1, 11>>), (<<0, 12>>)>>

\* The passes made so far are those of steps 0, 1, ... in order, the output holds the
\* sample of each at its position, and what is returned without a kill signal seen is
\* the array of all N of them.
C3_Passes ==
    /\ Len(calls) = Len(generated_log)
    /\ Len(calls) <= Len(label_data)
    /\ \A n \in 1..Len(calls) : calls[n].step = n - 1 /\ output[n] = generated_log[n]
    /\ pc = "loop" => i = Len(calls)
    /\ (pc = "returned" /\ \A n \in 1..Len(checks) : ~checks[n]) =>
           /\ result.kind = "array"
           /\ Len(calls) = Len(label_data)
    /\ result.kind = "array" =>
           /\ Len(calls) = Len(label_data)
           /\ Len(result.value) = Len(label_data)
           /\ result.value = generated_log

\* C3: a run that is not cancelled ends after exactly N forward passes, made in the
\* order t = 0, 1, ..., N-1, and returns an output of length N whose position t holds
\* the vector of the pass of step t; a position that was written keeps its value.
C3_Output == []C3_Passes /\ <>(pc \in {"returned", "exited"})

C3_Witness ==
    /\ result.kind = "array"
    /\ Len(label_data) = 3
    /\ result.value = <<1, 0, 1>>

\* C4: a kill signal that a per-step check observes ends the run at that check with
\* no result (None): the check is the last one, no further pass is made and the
\* output array is never returned, the check after the last step included; a
\* returned output array means every per-step check saw the signal unset.
C4_Cancel ==
    /\ \A n \in 1..Len(checks) :
           checks[n] => /\ n = Len(checks)
                        /\ Len(calls) = n
                        /\ pc = "returned"
                        /\ result.kind = "none"
    /\ result.kind = "array" =>
           /\ \A n \in 1..Len(checks) : ~checks[n]
           /\ gen_gui => Len(checks) = Len(label_data)
    /\ result.kind = "none" => checks # <<>> /\ checks[Len(checks)]

C4_Witness ==
    /\ result.kind = "none"
    /\ Len(label_data) = 3
    /\ Len(calls) = 3
    /\ checks = <<FALSE, FALSE, TRUE>>

\* C5: for K = 4 weights >= 0 that sum to 1 and every uniform draw u in [0, 1),
\* exactly one component k has mask 1, the one with cum_k <= u < cum_k + w_k, where
\* cum_k is the sum of the weights before k; a component of weight zero is never
\* selected; with weights 0.25 each, u = 0, 0.25 and 0.9999 select components 0, 1, 3
\* (counted from 1 here: 1, 2, 4).
C5_OneComponent ==
    mask # NotYet =>
        LET m == Val(mask)
            u == Val(random)
            cum(k) == SumSeq(SubSeq(weights, 1, k - 1))
            quarter == Total \div 4
        IN  /\ Cardinality({k \in 1..K : m[k] = 1}) = 1
            /\ \A k \in 1..K :
                   /\ m[k] \in {0, 1}
                   /\ m[k] = 1 <=> (cum(k) <= u /\ u < cum(k) + weights[k])
                   /\ weights[k] = 0 => m[k] = 0
                   /\ m[k] = 1 => Val(spectral_value) = Val(distribution)[k]
            /\ (4 * quarter = Total /\ weights = [k \in 1..K |-> quarter]) =>
                   /\ u = 0 => m[1] = 1
                   /\ u = quarter => m[2] = 1
                   /\ 10000 * u = 9999 * Total => m[4] = 1

C5_Witness ==
    /\ mask = Some(<<0, 1, 0, 0>>)
    /\ weights = <<2500, 2500, 2500, 2500>>
    /\ random = Some(2500)

\* C6: for levels, blocks, kernel, init_kernel >= 1, get_receptive_field returns
\* init_kernel - 1 + 1 + the sum over the dilated layers of (kernel-1)*dilation, the
\* dilation starting at 1 in each block and doubling per level, the final block with
\* levels-1 layers and every other block with levels layers; levels = 2, blocks = 2,
\* kernel = 2, init_kernel = 1 gives 5.
C6_ReceptiveField ==
    LET p == m_params
        \* levels n of dilations 1, 2, ..., 2^(n-1) add up to 2^n - 1
        perBlock(n) == Pow2(n) - 1
        total == (p.blocks - 1) * perBlock(p.levels) + perBlock(p.levels - 1)
    IN  (p.levels >= 1 /\ p.blocks >= 1 /\ p.kernel >= 1 /\ p.init_kernel >= 1) =>
            /\ rf_value # NotYet =>
                   /\ Val(rf_value) = p.init_kernel - 1 + 1 + (p.kernel - 1) * total
                   /\ p = [levels |-> 2, blocks |-> 2, kernel |-> 2, init_kernel |-> 1]
                          => Val(rf_value) = 5
            /\ layers # NotYet =>
                   /\ Len(Val(layers)) = (p.blocks - 1) * p.levels + p.levels - 1
                   /\ SumSeq(Val(layers)) = total
            /\ (rf_value # NotYet /\ layers # NotYet) =>
                   Val(rf_value) = p.init_kernel - 1 + 1
                       + SumSeq([n \in 1..Len(Val(layers)) |-> (p.kernel - 1) * Val(layers)[n]])

C6_Witness ==
    /\ m_params = [levels |-> 2, blocks |-> 2, kernel |-> 2, init_kernel |-> 1]
    /\ rf_value = Some(5)
    /\ layers = Some(<<1, 2, 1>>)

\* C7: in a train_model run the learning rate in effect in epoch e is
\* lr(0) / (1 + 0.00001 * e), lr(0) the configured rate, and the rates of successive
\* epochs never increase.
C7_LearningRate ==
    \A n \in 1..Len(lr_log) :
        /\ RatEq(lr_log[n], RatDivSmall(LearnRate, DecayDen + (n - 1), DecayDen))
        /\ n > 1 => RatLeq(lr_log[n], lr_log[n - 1])

\* C8: inference without the checkpoint file ends in get_generator: no forward pass
\* is made, no output is allocated or returned (neither an array nor None), and no
\* network is built in place of the missing one.
C8_MissingCheckpoint ==
    /\ model_file = NotYet =>
           /\ pc \in {"idle", "exited"}
           /\ generator = "none"
           /\ calls = <<>> /\ generated_log = <<>>
           /\ output = <<>>
           /\ result = Pending
    /\ pc = "exited" => model_file = NotYet
    /\ generator \in {"none", "loaded"}

C8_Witness ==
    /\ pc = "exited"
    /\ Len(label_data) = 3
    /\ gen_gui

\* C9: train_model deserializes a checkpoint exactly when load is requested and the
\* file exists; with load requested and the file missing the run is not aborted: a
\* fresh network is built, compiled with the optimizer and the mixture loss, and
\* fitted; without load a fresh network is built and compiled whatever the file.
C9_LoadOrBuild ==
    run >= 1 =>
        /\ model.origin = "loaded" <=> (load /\ found)
        /\ model.origin # "loaded" =>
               /\ model.origin = "built"
               /\ model.optimizer = "adam"
               /\ model.loss = "network_loss"
               /\ Len(lr_log) >= 1 => RatEq(lr_log[1], LearnRate)
        /\ train_pc \in {"fit", "done"}
        /\ train_pc = "done" => Len(lr_log) >= 1

C9_Witness ==
    /\ load /\ ~found
    /\ model.origin = "built"
    /\ train_pc = "done"
    /\ epoch = 2

\* C10: hyperparameters whose receptive field is not positive are rejected when the
\* model is built, so inference never makes its first step with a receptive field
\* <= 0.
C10_NoStepWithoutField ==
    /\ pc = "loop" /\ Len(label_data) > 0 => receptive_field >= 1
    /\ calls # <<>> => receptive_field >= 1

====
